---- MODULE Spec2Model ----
(***************************************************************************)
(* Model of the Wireshark K-means analyzers                                *)
(*   src/wireshark_kmeans_backend_minimal.py   (the "minimal" analyzer)    *)
(*   src/wireshark_kmeans_backend_enhanced.py  (the "enhanced" analyzer)   *)
(*                                                                         *)
(* Numbers.  The code works on real-valued feature matrices.  The model    *)
(* keeps every quantity exact:                                             *)
(*   - a feature matrix X is a sequence of rows, a row a tuple of          *)
(*     integers (one entry per feature column);                            *)
(*   - StandardScaler: with n rows, column sum S and V = n*SumSq - S*S     *)
(*     (= n*n*variance), the scaled entry is (n*x - S)/sqrt(W) where       *)
(*     W = V, or W = n*n when V = 0 (scale taken as 1).  A scaled matrix   *)
(*     is [a |-> rows of the integers n*x - S, w |-> the tuple of W];      *)
(*   - a centroid is the mean of a set of scaled rows: [s |-> the sum of   *)
(*     their a-rows, m |-> how many];                                      *)
(*   - a squared distance is an integer number of units 1/(QDen), QDen     *)
(*     common to the whole batch; a distance is the square root of it.     *)
(*     Order, equality, "= 0" and "<= 1" of distances are decided on the   *)
(*     squared values.                                                     *)
(***************************************************************************)
EXTENDS Integers, Sequences, FiniteSets, TLC

\* ---------------------------------------------------------------- bounds
\* Largest batch (number of records) of the pipeline specification.
MaxN == 3
\* The feature columns carried by the model: two 0/1 columns (src_local and
\* has_error are such columns in both analyzers).
FeatureRows == {<<0, 0>>, <<0, 1>>, <<1, 0>>, <<1, 1>>}
Dim == Len(CHOOSE r \in FeatureRows : TRUE)

\* ------------------------------------------------------- integer helpers
RECURSIVE SumTo(_, _)
\* f[1] + ... + f[n]
SumTo(f, n) == IF n = 0 THEN 0 ELSE f[n] + SumTo(f, n - 1)

RECURSIVE ProdTo(_, _)
\* f[1] * ... * f[n]
ProdTo(f, n) == IF n = 0 THEN 1 ELSE f[n] * ProdTo(f, n - 1)

RECURSIVE Gcd(_, _)
Gcd(a, b) == IF b = 0 THEN a ELSE Gcd(b, a % b)

RECURSIVE LcmTo(_)
\* lcm(1, ..., n)
LcmTo(n) == IF n <= 1 THEN 1 ELSE (LcmTo(n - 1) * n) \div Gcd(LcmTo(n - 1), n)

Sq(x) == x * x

\* The element of a one-element set.  Only({e(x) : x \in {v}}) is e(v) with v
\* computed once.
Only(S) == CHOOSE x \in S : TRUE

MinOf(S) == CHOOSE x \in S : \A y \in S : x <= y
MaxOf(S) == CHOOSE x \in S : \A y \in S : x >= y

RECURSIVE ArgMinFrom(_, _, _, _)
\* The least index in lo..hi at which f is least, given the best so far.
ArgMinFrom(f, lo, hi, best) ==
  IF lo > hi THEN best
  ELSE ArgMinFrom(f, lo + 1, hi, IF f[lo] < f[best] THEN lo ELSE best)

RECURSIVE ArgMaxFrom(_, _, _, _)
\* The least index in lo..hi at which f is greatest, given the best so far.
ArgMaxFrom(f, lo, hi, best) ==
  IF lo > hi THEN best
  ELSE ArgMaxFrom(f, lo + 1, hi, IF f[lo] > f[best] THEN lo ELSE best)

\* ------------------------------------------------------- StandardScaler
\* StandardScaler.fit: per-column statistics of the batch.
ScalerFit(X) ==
  LET n == Len(X)
      col(d) == [i \in 1..n |-> X[i][d]]
      colsq(d) == [i \in 1..n |-> Sq(X[i][d])]
  IN [n |-> n,
      sum |-> [d \in 1..Dim |-> SumTo(col(d), n)],
      var |-> [d \in 1..Dim |->
                 n * SumTo(colsq(d), n) - Sq(SumTo(col(d), n))]]

\* A transform that only centres: every scale taken as 1.
ScalerTransformCentred(st, X) ==
  LET w == [d \in 1..Dim |-> Sq(st.n)]
  IN [a |-> [i \in 1..Len(X) |-> [d \in 1..Dim |-> st.n * X[i][d] - st.sum[d]]],
      w |-> w,
      pw |-> [d \in 1..Dim |-> ProdTo(w, Dim) \div w[d]],
      l2 |-> Sq(LcmTo(Len(X)))]

\* StandardScaler.transform with fitted statistics st: (x - mean) / scale,
\* scale = sqrt(variance), taken as 1 when the variance is 0.
\* Besides a and w the result carries the two factors every squared distance
\* of the batch needs: l2 = lcm(1..n)^2 and pw[d] = (product of w) / w[d].
ScalerTransform(st, X) ==
  LET w == [d \in 1..Dim |-> IF st.var[d] = 0 THEN Sq(st.n) ELSE st.var[d]]
  IN [a |-> [i \in 1..Len(X) |-> [d \in 1..Dim |-> st.n * X[i][d] - st.sum[d]]],
      w |-> w,
      pw |-> [d \in 1..Dim |-> ProdTo(w, Dim) \div w[d]],
      l2 |-> Sq(LcmTo(Len(X)))]

\* fit_transform: fit on the batch, then transform the same batch.
ScalerFitTransform(X) == Only({ScalerTransform(st, X) : st \in {ScalerFit(X)}})

\* ------------------------------------------------------------ distances
NRows(Z) == Len(Z.a)

\* The common denominator of every squared distance of the batch Z.
QDen(Z) == Z.l2 * ProdTo(Z.w, Dim)

\* Squared Euclidean distance of row i of Z to centroid c, in units 1/QDen(Z).
SqDist(Z, i, c) ==
  SumTo([d \in 1..Dim |-> Sq(c.m * Z.a[i][d] - c.s[d]) * Z.pw[d]], Dim)
    * (Z.l2 \div Sq(c.m))

\* The centroid that sits on row i.
PointCentroid(Z, i) == [s |-> Z.a[i], m |-> 1]

\* ------------------------------------------------------ K-means engine
\* KMeans(n_clusters=K, random_state=42, n_init=10), max_iter at its default.
RandomState == 42
NInit == 10
MaxIter == 300

\* The seeded generator: draw number j (0, 1, ...) of the stream of restart r.
\* A linear congruential generator stands for the library's generator; what
\* matters is that the stream is a function of the seed and the restart index.
RngModulus == 65537
Lcg(s) == (75 * s + 74) % RngModulus

RECURSIVE RngDraw(_, _, _)
RngDraw(seed, r, j) ==
  IF j = 0 THEN Lcg((31 * seed + 17 * r) % RngModulus)
  ELSE Lcg(RngDraw(seed, r, j - 1))

\* Squared distance of row i to the nearest of the rows idx[1..k].
NearestChosen(Z, idx, k, i) ==
  MinOf({SqDist(Z, i, PointCentroid(Z, idx[j])) : j \in 1..k})

\* The least row index whose cumulative weight exceeds u.
RECURSIVE PickByWeight(_, _, _)
PickByWeight(wt, u, i) ==
  IF u < wt[i] THEN i ELSE PickByWeight(wt, u - wt[i], i + 1)

\* The j-th smallest element (j = 1, 2, ...) of a set of integers.
RECURSIVE NthOf(_, _)
NthOf(S, j) == IF j = 1 THEN MinOf(S) ELSE NthOf(S \ {MinOf(S)}, j - 1)

\* k-means++: the row chosen as centroid number k+1 when rows idx[1..k] are
\* chosen, drawing with the generator value g.
KppNext(Z, idx, k, g) ==
  LET n == NRows(Z)
      remaining == (1..n) \ {idx[j] : j \in 1..k}
  IN Only({IF SumTo(wt, n) > 0 THEN PickByWeight(wt, g % SumTo(wt, n), 1)
           ELSE NthOf(remaining, (g % Cardinality(remaining)) + 1) :
           wt \in {[i \in 1..n |-> NearestChosen(Z, idx, k, i)]}})

RECURSIVE KppRows(_, _, _, _, _)
\* The rows k-means++ chooses for restart r: idx extended to K entries.
KppRows(Z, K, seed, r, idx) ==
  LET k == Len(idx)
  IN IF k = K THEN idx
     ELSE IF k = 0
       THEN KppRows(Z, K, seed, r, <<(RngDraw(seed, r, 0) % NRows(Z)) + 1>>)
       ELSE Only({KppRows(Z, K, seed, r, Append(idx, next)) :
                  next \in {KppNext(Z, idx, k, RngDraw(seed, r, k))}})

\* Initial centroids, cluster ids 0..K-1, from the chosen rows.
CentroidsAt(Z, K, idx) == [k \in 0..(K - 1) |-> PointCentroid(Z, idx[k + 1])]

KppInit(Z, K, seed, r) ==
  Only({CentroidsAt(Z, K, idx) : idx \in {KppRows(Z, K, seed, r, <<>>)}})

\* An assignment step that takes the highest id among equals.
AssignStepHighestAmongEquals(Z, C) ==
  [i \in 1..NRows(Z) |->
     LET dist == [k \in DOMAIN C |-> SqDist(Z, i, C[k])]
     IN MaxOf({k \in DOMAIN C : \A j \in DOMAIN C : dist[k] <= dist[j]})]

\* Assignment step: the nearest centroid, the lowest id among equals.
AssignStep(Z, C) ==
  [i \in 1..NRows(Z) |->
     LET dist == [k \in DOMAIN C |-> SqDist(Z, i, C[k])]
     IN ArgMinFrom(dist, 1, Cardinality(DOMAIN C) - 1, 0)]

Members(lab, k) == {i \in DOMAIN lab : lab[i] = k}

\* The row farthest from its own assigned centroid, the lowest index among
\* equals.
Farthest(Z, C, lab) ==
  LET own == [i \in DOMAIN lab |-> SqDist(Z, i, C[lab[i]])]
  IN ArgMaxFrom(own, 2, NRows(Z), 1)

\* An update that moves each centroid to the first of its rows.
UpdateStepFirstMember(Z, C, lab) ==
  [k \in DOMAIN C |->
     IF Members(lab, k) = {} THEN PointCentroid(Z, Farthest(Z, C, lab))
     ELSE PointCentroid(Z, MinOf(Members(lab, k)))]

\* Update step: the mean of the assigned rows; a centroid with no rows is
\* reseeded to the farthest row.
UpdateStep(Z, C, lab) ==
  [k \in DOMAIN C |->
     LET mem == Members(lab, k)
     IN IF mem = {} THEN PointCentroid(Z, Farthest(Z, C, lab))
        ELSE [s |-> [d \in 1..Dim |->
                       SumTo([i \in 1..NRows(Z) |->
                                IF i \in mem THEN Z.a[i][d] ELSE 0], NRows(Z))],
              m |-> Cardinality(mem)]]

\* Sum of the squared distances of the rows to their assigned centroids.
Inertia(Z, C, lab) ==
  SumTo([i \in 1..NRows(Z) |-> SqDist(Z, i, C[lab[i]])], NRows(Z))

NoLabels == <<>>

\* A test that never sees convergence.
ConvergedNever(new, lab) == FALSE

\* No row changes its cluster between two iterations.
Converged(new, lab) == new = lab

\* The iteration cap.
CapReached(iter) == iter = MaxIter

RECURSIVE LloydLoop(_, _, _, _)
\* Steps 2-3 repeated until no row changes its cluster or the cap is reached.
LloydLoop(Z, C, lab, iter) ==
  IF CapReached(iter) THEN [centers |-> C, labels |-> lab, n_iter |-> iter]
  ELSE Only({IF Converged(new, lab)
             THEN [centers |-> C, labels |-> lab, n_iter |-> iter]
             ELSE Only({LloydLoop(Z, moved, new, iter + 1) :
                        moved \in {UpdateStep(Z, C, new)}}) :
             new \in {AssignStep(Z, C)}})

\* One restart.
Restart(Z, K, seed, r) ==
  Only({[centers |-> run.centers, labels |-> run.labels, n_iter |-> run.n_iter,
         inertia |-> Inertia(Z, run.centers, run.labels)] :
        run \in {Only({LloydLoop(Z, init, NoLabels, 0) :
                       init \in {KppInit(Z, K, seed, r)}})}})

\* A selection that keeps the restart that ran last.
BetterIsLatest(this, best) == this

\* The single-writer reduction: the restart with the lower inertia, the
\* earlier one among equals.
Better(this, best) == IF this.inertia < best.inertia THEN this ELSE best

RECURSIVE BestOf(_, _, _, _, _)
\* The restart of r..NInit, or best, with the least inertia; the earlier one
\* among equals.
BestOf(Z, K, seed, r, best) ==
  IF r > NInit THEN best
  ELSE Only({Only({BestOf(Z, K, seed, r + 1, better) :
                   better \in {Better(this, best)}}) :
             this \in {Restart(Z, K, seed, r)}})

\* KMeans.fit: the best of NInit restarts.
KMeansFit(Z, K, seed) ==
  Only({BestOf(Z, K, seed, 2, this) : this \in {Restart(Z, K, seed, 1)}})

\* KMeans.transform followed by min over the centroids: the squared distance
\* of each row to the nearest centroid.
MinSqDist(Z, C) ==
  [i \in 1..NRows(Z) |-> MinOf({SqDist(Z, i, C[k]) : k \in DOMAIN C})]

\* A check that also rejects as many clusters as rows.
KMeansRejectsUpTo(K, n) == K < 1 \/ n <= K

\* KMeans.fit_predict / fit: the parameter checks the library makes before any
\* computation.
KMeansRejects(K, n) == K < 1 \/ n < K

\* ----------------------------------------------------------- the scores
\* An array of anomaly scores, one per row.  With q the squared nearest-
\* centroid distances (units 1/den):
\*   kind "raw":   score[i] = sqrt(q[i] / den)
\*   kind "norm":  score[i] = (sqrt(q[i]) - sqrt(lo)) / (sqrt(hi) - sqrt(lo)),
\*                 lo < hi the least and greatest q of the batch
\*   kind "zeros": score[i] = 0.
\* The square root is increasing, so scores of one array are ordered as
\* their q.
RawScores(Z, C) ==
  [kind |-> "raw", q |-> MinSqDist(Z, C), den |-> QDen(Z), lo |-> 0, hi |-> 0]

QValues(S) == {S.q[i] : i \in DOMAIN S.q}

\* (anomaly_scores - min) / (max - min)
MinMax(S) ==
  [kind |-> "norm", q |-> S.q, den |-> S.den,
   lo |-> MinOf(QValues(S)), hi |-> MaxOf(QValues(S))]

\* np.zeros_like(anomaly_scores)
ZerosLike(S) ==
  [kind |-> "zeros", q |-> [i \in DOMAIN S.q |-> 0], den |-> S.den,
   lo |-> 0, hi |-> 0]

ScoreIsZero(S, i) ==
  \/ S.kind = "zeros"
  \/ S.kind = "raw" /\ S.q[i] = 0
  \/ S.kind = "norm" /\ S.q[i] = S.lo

ScoreIsOne(S, i) ==
  \/ S.kind = "raw" /\ S.q[i] = S.den
  \/ S.kind = "norm" /\ S.q[i] = S.hi

ScoreInUnit(S, i) ==
  \/ S.kind = "zeros"
  \/ S.kind = "raw" /\ S.q[i] <= S.den
  \/ S.kind = "norm" /\ S.lo <= S.q[i] /\ S.q[i] <= S.hi

\* The k-th smallest (k = 0, 1, ...) of the values of q, as np.sort gives it.
KthSmallest(q, k) ==
  CHOOSE v \in {q[i] : i \in DOMAIN q} :
    /\ Cardinality({i \in DOMAIN q : q[i] < v}) <= k
    /\ Cardinality({i \in DOMAIN q : q[i] <= v}) > k

\* np.percentile(scores, p), linear interpolation: with pos = p/100 * (n-1),
\* the value sorted[floor(pos)] + frac(pos) * (sorted[floor(pos)+1] -
\* sorted[floor(pos)]).  Kept as the two order statistics and the fraction
\* (in hundredths).
Percentile(S, p) ==
  LET n == Cardinality(DOMAIN S.q)
      pos100 == p * (n - 1)
      below == pos100 \div 100
      above == IF below + 1 > n - 1 THEN n - 1 ELSE below + 1
  IN [lo |-> KthSmallest(S.q, below), hi |-> KthSmallest(S.q, above),
      frac100 |-> pos100 % 100]

\* score[i] > t, for t a percentile of the same array.  t.lo and t.hi are
\* neighbours in the sorted array and the fraction is below 1, so t lies in
\* [t.lo, t.hi) when t.lo < t.hi and is t.lo otherwise; score[i] is an element
\* of the array, so it is either <= t.lo or >= t.hi.
ScoreExceeds(S, i, t) ==
  IF S.q[i] <= t.lo THEN FALSE
  ELSE IF S.q[i] >= t.hi THEN TRUE
  ELSE t.frac100 = 0

\* ------------------------------------------------------ analyzer object
\* An attribute that is None is <<>>, one that holds v is <<v>>.
None == <<>>
Some(v) == <<v>>
Get(o) == o[1]

\* WiresharkKmeansAnalyzer.__init__ (both analyzers): the cluster count is
\* stored, the scaler is created unfitted, everything else is None.
NewAnalyzer(K) ==
  [num_clusters |-> K, scaler |-> None, kmeans |-> None, features |-> None,
   labels |-> None, anomaly_scores |-> None]

\* An estimator that continues the random stream of the estimator the object
\* holds from an earlier call.
NewKMeansContinued(self) ==
  [n_clusters |-> self.num_clusters,
   random_state |-> IF self.kmeans = None THEN RandomState
                    ELSE Get(self.kmeans).random_state + 1,
   cluster_centers_ |-> None]

\* KMeans(n_clusters=self.num_clusters, random_state=42, n_init=10): a new,
\* unfitted estimator on every call.
NewKMeans(self) ==
  [n_clusters |-> self.num_clusters, random_state |-> RandomState,
   cluster_centers_ |-> None]

\* fit_predict on the scaled batch Z: the fitted estimator and the labels.
FitPredict(est, Z) ==
  Only({[est |-> [est EXCEPT !.cluster_centers_ = Some(fit.centers)],
         labels |-> fit.labels] :
        fit \in {KMeansFit(Z, est.n_clusters, est.random_state)}})

NUnique(lab) == Cardinality({lab[i] : i \in DOMAIN lab})

\* silhouette_score accepts 2 .. n_samples - 1 distinct labels and raises
\* ValueError otherwise.
SilhouetteRejects(lab) == ~(1 < NUnique(lab) /\ NUnique(lab) < Len(lab))

\* Normalisation of the minimal analyzer: min-max when there is more than one
\* score and they are not all equal, zeros when they are all equal.
NormalizeMinimal(S) ==
  IF Cardinality(DOMAIN S.q) > 1
  THEN IF MaxOf(QValues(S)) > MinOf(QValues(S)) THEN MinMax(S) ELSE ZerosLike(S)
  ELSE S

\* Normalisation of the enhanced analyzer: min-max when there is more than one
\* score and they are not all equal; otherwise the scores are left as they are.
NormalizeEnhanced(S) ==
  IF Cardinality(DOMAIN S.q) > 1
  THEN IF MaxOf(QValues(S)) > MinOf(QValues(S)) THEN MinMax(S) ELSE S
  ELSE S

\* The result of a call: the object after it, the exception raised ("none"
\* when it returned) and the returned value.
Returned(self, ret) == [self |-> self, exc |-> "none", ret |-> Some(ret)]
Raised(self, exc) == [self |-> self, exc |-> exc, ret |-> None]

\* The scores either analyzer stores: the raw distances, normalised.
MinimalScores(Z, C) == Only({NormalizeMinimal(raw) : raw \in {RawScores(Z, C)}})
EnhancedScores(Z, C) == Only({NormalizeEnhanced(raw) : raw \in {RawScores(Z, C)}})

\* minimal perform_clustering(features_df)
PerformClustering(self, X) ==
  LET s1 == [self EXCEPT !.scaler = Some(ScalerFit(X)),
                         !.kmeans = Some(NewKMeans(self))]
  IN IF KMeansRejects(self.num_clusters, Len(X)) THEN Raised(s1, "ValueError")
     ELSE Only({Only({Only({
            IF NUnique(fp.labels) > 1 /\ SilhouetteRejects(fp.labels)
            THEN Raised([s1 EXCEPT !.kmeans = Some(fp.est)], "ValueError")
            ELSE Returned([s1 EXCEPT !.kmeans = Some(fp.est),
                                     !.features = Some(Z),
                                     !.labels = Some(fp.labels),
                                     !.anomaly_scores = Some(scores)],
                          [labels |-> fp.labels, anomaly_scores |-> scores,
                           silhouette |-> IF NUnique(fp.labels) > 1
                                          THEN "silhouette_score" ELSE "0"]) :
            scores \in {MinimalScores(Z, Get(fp.est.cluster_centers_))}}) :
            fp \in {FitPredict(NewKMeans(self), Z)}}) :
            Z \in {ScalerFitTransform(X)}})

\* A rejection that comes after the scaler is fitted and the estimator
\* created.
RejectAfterFit(self, X) ==
  Raised([self EXCEPT !.scaler = Some(ScalerFit(X)),
                      !.kmeans = Some(NewKMeans(self))], "ValueError")

\* raise ValueError("Not enough data points ..."), the first statement of
\* perform_analysis.
RejectTooFew(self, X) == Raised(self, "ValueError")

\* enhanced perform_analysis(features)
PerformAnalysis(self, X) ==
  IF Len(X) < self.num_clusters THEN RejectTooFew(self, X)
  ELSE LET s1 == [self EXCEPT !.scaler = Some(ScalerFit(X)),
                              !.kmeans = Some(NewKMeans(self))]
       IN IF KMeansRejects(self.num_clusters, Len(X)) THEN Raised(s1, "ValueError")
          ELSE Only({Only({Only({
                 Returned([s1 EXCEPT !.kmeans = Some(fp.est),
                                     !.labels = Some(fp.labels),
                                     !.anomaly_scores = Some(scores),
                                     !.features = Some(X)],
                          [cluster_labels |-> fp.labels,
                           anomaly_scores |-> scores,
                           cluster_centers |-> Get(fp.est.cluster_centers_)]) :
                 scores \in {EnhancedScores(Z, Get(fp.est.cluster_centers_))}}) :
                 fp \in {FitPredict(NewKMeans(self), Z)}}) :
                 Z \in {ScalerFitTransform(X)}})

\* ------------------------------------------------------------ reporter
\* The 'No.' column: the record's ordinal, unique, 1, 2, ... in input order.
PacketNumber(i) == i

\* df.copy() with the columns 'cluster' and 'anomaly_score' added.
WithClusters(self, n) ==
  [n |-> n, cluster |-> Get(self.labels),
   anomaly_score |-> Get(self.anomaly_scores)]

\* df_with_clusters[df_with_clusters['cluster'] == k]
ClusterRows(dfc, k) == {i \in 1..dfc.n : dfc.cluster[i] = k}

RECURSIVE ClusterInfosAll(_, _, _)
\* A loop that also reports the cluster ids without rows.
ClusterInfosAll(dfc, k, K) ==
  IF k >= K THEN <<>>
  ELSE <<[id |-> k, size |-> Cardinality(ClusterRows(dfc, k)),
          percentage |-> [num |-> Cardinality(ClusterRows(dfc, k)) * 100,
                          den |-> dfc.n]]>>
       \o ClusterInfosAll(dfc, k + 1, K)

\* A loop that stops after its first cluster id.
ClusterInfosFirstOnly(dfc, k, K) ==
  IF k >= K \/ ClusterRows(dfc, k) = {} THEN <<>>
  ELSE <<[id |-> k, size |-> Cardinality(ClusterRows(dfc, k)),
          percentage |-> [num |-> Cardinality(ClusterRows(dfc, k)) * 100,
                          den |-> dfc.n]]>>

RECURSIVE ClusterInfos(_, _, _)
\* The loop over range(num_clusters) from cluster id k on: one summary per
\* cluster id that has rows, none for an id without rows.
ClusterInfos(dfc, k, K) ==
  IF k >= K THEN <<>>
  ELSE (IF ClusterRows(dfc, k) = {} THEN <<>>
        ELSE <<[id |-> k, size |-> Cardinality(ClusterRows(dfc, k)),
                percentage |-> [num |-> Cardinality(ClusterRows(dfc, k)) * 100,
                                den |-> dfc.n]]>>)
       \o ClusterInfos(dfc, k + 1, K)

\* minimal analyze_clusters(df, features_df): (analysis, df_with_clusters)
AnalyzeClusters(self, n) ==
  [analysis |-> [num_clusters |-> self.num_clusters, total_packets |-> n,
                 clusters |-> ClusterInfos(WithClusters(self, n), 0,
                                           self.num_clusters)],
   df_with_clusters |-> WithClusters(self, n)]

\* detect_anomalies' default threshold_percentile, and the small-cluster share
\* (len * 0.05) in percent.
DefaultThresholdPercentile == 95
SmallClusterPercent == 5

Anomaly(dfc, i, reason) ==
  [packet_number |-> PacketNumber(i), cluster_id |-> dfc.cluster[i],
   anomaly_score |-> dfc.anomaly_score.q[i], reason |-> reason]

RECURSIVE HighScoreAnomalies(_, _, _)
\* The rows from i on whose anomaly_score exceeds the threshold t, in row
\* order.
HighScoreAnomalies(dfc, t, i) ==
  IF i > dfc.n THEN <<>>
  ELSE (IF ScoreExceeds(dfc.anomaly_score, i, t)
        THEN <<Anomaly(dfc, i, "High anomaly score")>> ELSE <<>>)
       \o HighScoreAnomalies(dfc, t, i + 1)

ClusterIds(dfc) == {dfc.cluster[i] : i \in 1..dfc.n}

FirstRow(dfc, k) == MinOf(ClusterRows(dfc, k))

RECURSIVE ValueCounts(_, _)
\* df['cluster'].value_counts() over the cluster ids in ids: the ids by
\* decreasing size, the one seen first in the rows among equal sizes.
ValueCounts(dfc, ids) ==
  IF ids = {} THEN <<>>
  ELSE LET top == CHOOSE k \in ids : \A j \in ids :
                    \/ Cardinality(ClusterRows(dfc, k)) > Cardinality(ClusterRows(dfc, j))
                    \/ /\ Cardinality(ClusterRows(dfc, k)) = Cardinality(ClusterRows(dfc, j))
                       /\ FirstRow(dfc, k) <= FirstRow(dfc, j)
       IN <<top>> \o ValueCounts(dfc, ids \ {top})

\* A rule that also takes a cluster of exactly 5%.
IsSmallClusterInclusive(size, n) == size * 100 <= n * SmallClusterPercent

\* size < len(df_with_clusters) * 0.05.  For integers size and n the double
\* product n * 0.05 compares with size as n/20 does.
IsSmallCluster(size, n) == size * 100 < n * SmallClusterPercent

\* A check that finds no earlier finding.
HasPacketNever(anomalies, no) == FALSE

\* A check that takes the packet number for a position in the list.
HasPacketAtPosition(anomalies, no) == no <= Len(anomalies)

\* any(a['packet_number'] == row['No.'] for a in anomalies)
HasPacket(anomalies, no) ==
  \E j \in 1..Len(anomalies) : anomalies[j].packet_number = no

RECURSIVE AddClusterRows(_, _, _, _)
\* The rows of cluster k from row i on, appended to anomalies unless a finding
\* with the same packet number is already there.
AddClusterRows(dfc, k, i, anomalies) ==
  IF i > dfc.n THEN anomalies
  ELSE AddClusterRows(dfc, k, i + 1,
         IF dfc.cluster[i] = k /\ ~HasPacket(anomalies, PacketNumber(i))
         THEN Append(anomalies, Anomaly(dfc, i, "Small cluster"))
         ELSE anomalies)

RECURSIVE AddSmallClusters(_, _, _, _)
\* The loop over cluster_sizes.items() from position j on.
AddSmallClusters(dfc, counts, j, anomalies) ==
  IF j > Len(counts) THEN anomalies
  ELSE AddSmallClusters(dfc, counts, j + 1,
         IF IsSmallCluster(Cardinality(ClusterRows(dfc, counts[j])), dfc.n)
         THEN AddClusterRows(dfc, counts[j], 1, anomalies)
         ELSE anomalies)

\* minimal detect_anomalies(df_with_clusters, threshold_percentile)
DetectAnomalies(self, dfc, threshold_percentile) ==
  LET anomaly_threshold == Percentile(Get(self.anomaly_scores), threshold_percentile)
  IN AddSmallClusters(dfc, ValueCounts(dfc, ClusterIds(dfc)), 1,
                      HighScoreAnomalies(dfc, anomaly_threshold, 1))

RECURSIVE PacketResultsReversed(_, _, _)
\* The rows collected last to first.
PacketResultsReversed(dfc, anomalies, i) ==
  IF i > dfc.n THEN <<>>
  ELSE PacketResultsReversed(dfc, anomalies, i + 1)
       \o <<[packet_number |-> PacketNumber(i), cluster_id |-> dfc.cluster[i],
             anomaly_score |-> dfc.anomaly_score.q[i],
             is_anomaly |-> HasPacket(anomalies, PacketNumber(i))]>>

RECURSIVE PacketResults(_, _, _)
\* The per-packet rows of the report, from row i on.
PacketResults(dfc, anomalies, i) ==
  IF i > dfc.n THEN <<>>
  ELSE <<[packet_number |-> PacketNumber(i), cluster_id |-> dfc.cluster[i],
          anomaly_score |-> dfc.anomaly_score.q[i],
          is_anomaly |-> HasPacket(anomalies, PacketNumber(i))]>>
       \o PacketResults(dfc, anomalies, i + 1)

\* detect_anomalies as generate_results calls it: without a threshold
\* argument.
DetectAnomaliesCall(self, dfc) ==
  DetectAnomalies(self, dfc, DefaultThresholdPercentile)

\* minimal generate_results(df, features_df)
GenerateResults(self, X) ==
  Only({IF pc.exc # "none" THEN pc
        ELSE Only({Only({
               Returned(pc.self,
                 [analysis_info |-> [num_clusters |-> pc.self.num_clusters,
                                     total_packets |-> Len(X),
                                     silhouette_score |-> Get(pc.ret).silhouette,
                                     num_anomalies |-> Len(anomalies)],
                  cluster_analysis |-> ac.analysis,
                  anomalies |-> anomalies,
                  packet_results |->
                    PacketResults(ac.df_with_clusters, anomalies, 1)]) :
               anomalies \in {DetectAnomaliesCall(pc.self, ac.df_with_clusters)}}) :
               ac \in {AnalyzeClusters(pc.self, Len(X))}}) :
        pc \in {PerformClustering(self, X)}})

\* The fixed percentile of the enhanced analyzer's summary and export.
EnhancedThresholdPercentile == 90

\* The distinct labels with their counts, as np.unique(return_counts=True).
ClusterSizes(lab) ==
  [k \in {lab[i] : i \in DOMAIN lab} |-> Cardinality(Members(lab, k))]

\* enhanced get_cluster_summary()
GetClusterSummary(self) ==
  IF self.labels = None THEN None
  ELSE LET lab == Get(self.labels)
           scores == Get(self.anomaly_scores)
           t == Percentile(scores, EnhancedThresholdPercentile)
       IN Some([total_packets |-> Len(lab),
                num_clusters |-> self.num_clusters,
                cluster_sizes |-> ClusterSizes(lab),
                high_anomaly_count |->
                  Cardinality({i \in DOMAIN lab : ScoreExceeds(scores, i, t)}),
                small_clusters |->
                  {k \in DOMAIN ClusterSizes(lab) :
                     IsSmallCluster(ClusterSizes(lab)[k], Len(lab))}])

\* enhanced export_results(output_file, format): the call's result and the
\* file content written (None when nothing is written).
NoResultsMessage == "No analysis results to export"

\* An export that opens the output file before it looks at the object.
ExportResultsOpensFirst(self, format) ==
  [call |-> Raised(self, "ValueError"),
   file |-> Some([format |-> format, content |-> <<>>]),
   msg |-> NoResultsMessage]

ExportResults(self, format) ==
  IF self.labels = None
  THEN [call |-> Raised(self, "ValueError"), file |-> None,
        msg |-> NoResultsMessage]
  ELSE LET lab == Get(self.labels)
           scores == Get(self.anomaly_scores)
           t == Percentile(scores, EnhancedThresholdPercentile)
           packet_results ==
             [i \in 1..Len(lab) |->
                [packet_number |-> i, cluster_id |-> lab[i],
                 anomaly_score |-> scores.q[i],
                 is_anomaly |-> ScoreExceeds(scores, i, t)]]
           results == [summary |-> GetClusterSummary(self),
                       packet_results |-> packet_results]
       IN [call |-> Returned(self, results),
           file |-> IF format = "json" THEN Some([format |-> "json", content |-> results])
                    ELSE IF format = "csv"
                    THEN Some([format |-> "csv", content |-> packet_results])
                    ELSE None,
           msg |-> ""]

\* ---------------------------------------------------------------- state
VARIABLES
  variant,   \* which analyzer: "minimal" or "enhanced"
  args,      \* the parsed command line: clusters, threshold
  df,        \* the loaded batch: its feature rows, one per record
  self,      \* the analyzer object
  last,      \* the last call: its name, the exception raised, the value returned
  pc,        \* where the run is
  outfile,   \* the output file: None until written
  first,     \* the result of the first clustering of df on this object
  km         \* one K-means restart, step by step

vars == <<variant, args, df, self, last, pc, outfile, first, km>>

Variants == {"minimal", "enhanced"}
\* --clusters: 0 stands for every K < 1, MaxN + 1 exceeds every batch.
ClusterCounts == 0..(MaxN + 1)
\* --threshold
Thresholds == {25, 95}
Formats == {"json", "csv"}
Batches == UNION {[1..n -> FeatureRows] : n \in 1..MaxN}

NoCall == [call |-> "none", exc |-> "none", ret |-> None]
CallOf(name, r) == [call |-> name, exc |-> r.exc, ret |-> r.ret]
NoRestart == [phase |-> "off"]

\* ---------------------------------------------- Spec: one run of a CLI
\* main() up to the loaded batch: arguments parsed, analyzer constructed, CSV
\* loaded (at least one row).
Init ==
  /\ variant \in Variants
  /\ args \in [clusters : ClusterCounts, threshold : Thresholds]
  /\ df \in Batches
  /\ self = NewAnalyzer(args.clusters)
  /\ last = NoCall
  /\ pc = "ready"
  /\ outfile = None
  /\ first = None
  /\ km = NoRestart

\* minimal main: results = analyzer.generate_results(df, features_df); an
\* exception leaves main with a traceback and exit status 1.
CallGenerateResults ==
  /\ variant = "minimal" /\ pc = "ready"
  /\ \E r \in {GenerateResults(self, df)} :
        /\ self' = r.self
        /\ last' = CallOf("generate_results", r)
        /\ pc' = IF r.exc = "none" THEN "analyzed" ELSE "exit1"
  /\ UNCHANGED <<variant, args, df, outfile, first, km>>

\* minimal main: the results are written when --format is json, then main
\* returns.
MinimalOutput ==
  /\ variant = "minimal" /\ pc = "analyzed"
  /\ \E format \in Formats :
       /\ outfile' = IF format = "json"
                     THEN Some([format |-> "json", content |-> Get(last.ret)])
                     ELSE outfile
       /\ last' = [call |-> "write_results", exc |-> "none", ret |-> last.ret,
                   format |-> format]
  /\ pc' = "exit0"
  /\ UNCHANGED <<variant, args, df, self, first, km>>

\* enhanced main: too few packets for the cluster count, return 1.
EnhancedMainReject ==
  /\ variant = "enhanced" /\ pc = "ready"
  /\ Len(df) < args.clusters
  /\ pc' = "exit1"
  /\ UNCHANGED <<variant, args, df, self, last, outfile, first, km>>

\* enhanced perform_analysis(features), from main or called directly; main
\* returns 1 on an exception.
CallPerformAnalysis ==
  /\ variant = "enhanced" /\ pc = "ready"
  /\ \E r \in {PerformAnalysis(self, df)} :
        /\ self' = r.self
        /\ last' = CallOf("perform_analysis", r)
        /\ pc' = IF r.exc = "none" THEN "analyzed" ELSE "exit1"
  /\ UNCHANGED <<variant, args, df, outfile, first, km>>

\* enhanced main: summary = analyzer.get_cluster_summary()
CallGetClusterSummary ==
  /\ variant = "enhanced" /\ pc = "analyzed"
  /\ last' = [call |-> "get_cluster_summary", exc |-> "none",
              ret |-> GetClusterSummary(self)]
  /\ pc' = "summarized"
  /\ UNCHANGED <<variant, args, df, self, outfile, first, km>>

\* enhanced main: export_results(args.output, args.format) when --output is
\* given, then return 0.
CallExportResults ==
  /\ variant = "enhanced" /\ pc = "summarized"
  /\ \E format \in Formats :
       \E r \in {ExportResults(self, format)} :
          /\ last' = [call |-> "export_results", exc |-> r.call.exc,
                      ret |-> r.call.ret, format |-> format]
          /\ outfile' = r.file
  /\ pc' = "exit0"
  /\ UNCHANGED <<variant, args, df, self, first, km>>

\* enhanced main without --output: return 0.
EnhancedMainReturn ==
  /\ variant = "enhanced" /\ pc = "summarized"
  /\ pc' = "exit0"
  /\ UNCHANGED <<variant, args, df, self, last, outfile, first, km>>

Next ==
  \/ CallGenerateResults
  \/ MinimalOutput
  \/ EnhancedMainReject
  \/ CallPerformAnalysis
  \/ CallGetClusterSummary
  \/ CallExportResults
  \/ EnhancedMainReturn

Spec == Init /\ [][Next]_vars

\* ------------------------------------------------------- claims on Spec
Clustered == self.labels # None
Rows == 1..Len(df)
AllDistancesEqual == \A i, j \in Rows : Get(self.anomaly_scores).q[i] = Get(self.anomaly_scores).q[j]
InvalidClusterCount == args.clusters < 1 \/ args.clusters > Len(df)
Reported == last.call = "generate_results" /\ last.exc = "none"
ReportedClusters == Get(last.ret).cluster_analysis.clusters

\* C1.  Partition invariant: once a batch is clustered, every record index
\* has exactly one cluster id, in [0, K); in the cluster report the member sets
\* are disjoint and cover the batch: every record's cluster is reported exactly
\* once and the reported sizes add up to the number of records.
C1_Partition ==
  Clustered =>
    /\ DOMAIN Get(self.labels) = Rows
    /\ \A i \in Rows : Get(self.labels)[i] \in 0..(self.num_clusters - 1)
    /\ Reported =>
         /\ \A i \in Rows :
              Cardinality({j \in 1..Len(ReportedClusters) :
                             ReportedClusters[j].id = Get(self.labels)[i]}) = 1
         /\ SumTo([j \in 1..Len(ReportedClusters) |-> ReportedClusters[j].size],
                  Len(ReportedClusters)) = Len(df)

\* A report of three records in two clusters.
C1_Witness ==
  /\ Reported /\ Len(df) = 3 /\ Len(ReportedClusters) = 2

\* C2.  Score bounds: every anomaly score lies in [0,1], and when the raw
\* distances are not all equal some record has score 0 and some has score 1.
C2_ScoreBounds ==
  Clustered =>
    /\ \A i \in Rows : ScoreInUnit(Get(self.anomaly_scores), i)
    /\ ~AllDistancesEqual =>
         /\ \E i \in Rows : ScoreIsZero(Get(self.anomaly_scores), i)
         /\ \E i \in Rows : ScoreIsOne(Get(self.anomaly_scores), i)

\* C3.  When all raw distances of the batch are equal, every score is 0.
C3_EqualDistancesScoreZero ==
  (Clustered /\ AllDistancesEqual) =>
    \A i \in Rows : ScoreIsZero(Get(self.anomaly_scores), i)

\* C4.  Invalid cluster count: the run fails before any standardization or
\* clustering step has executed and produces no partial result.
C4_InvalidKFailsFirst ==
  (InvalidClusterCount /\ pc # "ready") =>
    /\ pc = "exit1"
    /\ self.scaler = None /\ self.kmeans = None
    /\ self.labels = None /\ self.anomaly_scores = None
    /\ outfile = None

HighScoreFlagged(i) ==
  \E j \in 1..Len(Get(last.ret).anomalies) :
    /\ Get(last.ret).anomalies[j].packet_number = PacketNumber(i)
    /\ Get(last.ret).anomalies[j].reason = "High anomaly score"

\* C6.  High-score rule: a record is flagged by the high-score rule exactly
\* when its score exceeds the percentile of the batch's scores given by the
\* configured --threshold.
C6_ConfiguredThreshold ==
  Reported =>
    \A i \in Rows :
      HighScoreFlagged(i) <=>
        ScoreExceeds(Get(self.anomaly_scores), i,
                     Percentile(Get(self.anomaly_scores), args.threshold))

\* ------------------------------- SpecDetect: the reporter on large batches
\* The small-cluster rule needs at least 21 records to flag anything.  This
\* specification starts where analyze_clusters has returned: the 'cluster' and
\* 'anomaly_score' columns of a batch of 19..MaxDetectN records are drawn, and
\* detect_anomalies is called on them.  The columns: the records are in cluster
\* 0 with squared distance 1, except the first two records and the last one,
\* each of which is in any of the three clusters with squared distance 0, 1
\* or 2.  detect_anomalies reads no feature column, so df carries zero rows.
MaxDetectN == 21
DetectSizes == 19..MaxDetectN
Special(n) == {1, 2, n}

DrawnScores(q) ==
  LET S == [kind |-> "raw", q |-> q, den |-> 1, lo |-> 0, hi |-> 0]
  IN NormalizeMinimal(S)

InitDetect ==
  /\ variant = "minimal"
  /\ args \in [clusters : {3}, threshold : Thresholds]
  /\ \E n \in DetectSizes :
       \E lab \in [Special(n) -> 0..2], q \in [Special(n) -> 0..2] :
         /\ df = [i \in 1..n |-> <<0, 0>>]
         /\ self = [NewAnalyzer(3) EXCEPT
                      !.labels = Some([i \in 1..n |->
                                         IF i \in Special(n) THEN lab[i] ELSE 0]),
                      !.anomaly_scores = Some(DrawnScores(
                                         [i \in 1..n |->
                                            IF i \in Special(n) THEN q[i] ELSE 1]))]
  /\ last = NoCall
  /\ pc = "clustered"
  /\ outfile = None
  /\ first = None
  /\ km = NoRestart

\* detect_anomalies(df_with_clusters, threshold_percentile), called with the
\* default percentile or with the configured one.
CallDetectAnomalies ==
  /\ pc = "clustered"
  /\ \E t \in {DefaultThresholdPercentile, args.threshold} :
       last' = [call |-> "detect_anomalies", exc |-> "none",
                ret |-> Some([threshold_percentile |-> t,
                              anomalies |-> DetectAnomalies(
                                 self, WithClusters(self, Len(df)), t)])]
  /\ pc' = "detected"
  /\ UNCHANGED <<variant, args, df, self, outfile, first, km>>

\* generate_results from where analyze_clusters has returned:
\* detect_anomalies without a threshold argument, then the compiled report
\* (cluster_analysis, computed before, is left out).
CompileResults ==
  /\ pc = "clustered"
  /\ \E dfc \in {WithClusters(self, Len(df))} :
       \E anomalies \in {DetectAnomaliesCall(self, dfc)} :
         last' = [call |-> "generate_results", exc |-> "none",
                  ret |-> Some([analysis_info |->
                                  [num_clusters |-> self.num_clusters,
                                   total_packets |-> Len(df),
                                   num_anomalies |-> Len(anomalies)],
                                anomalies |-> anomalies,
                                packet_results |->
                                  PacketResults(dfc, anomalies, 1)])]
  /\ pc' = "reported"
  /\ UNCHANGED <<variant, args, df, self, outfile, first, km>>

NextDetect == CallDetectAnomalies \/ CompileResults

SpecDetect == InitDetect /\ [][NextDetect]_vars

Detected == last.call = "detect_anomalies"
Found == Get(last.ret).anomalies
FindingsOf(i) == {j \in 1..Len(Found) : Found[j].packet_number = PacketNumber(i)}
ClusterSizeOf(i) == Cardinality(Members(Get(self.labels), Get(self.labels)[i]))
ExceedsThreshold(i) ==
  ScoreExceeds(Get(self.anomaly_scores), i,
               Percentile(Get(self.anomaly_scores), Get(last.ret).threshold_percentile))

\* C5.  Anomaly deduplication: no record has more than one finding, and a
\* record that matches both rules has one finding, with the high-score reason.
C5_Deduplicated ==
  Detected =>
    \A i \in Rows :
      /\ Cardinality(FindingsOf(i)) <= 1
      /\ (ExceedsThreshold(i) /\ 20 * ClusterSizeOf(i) < Len(df)) =>
           /\ Cardinality(FindingsOf(i)) = 1
           /\ \A j \in FindingsOf(i) : Found[j].reason = "High anomaly score"

\* A record of a small cluster whose score exceeds the threshold.
C5_Witness ==
  /\ Detected
  /\ \E i \in Rows : ExceedsThreshold(i) /\ 20 * ClusterSizeOf(i) < Len(df)

\* C7.  Small-cluster rule: every member of a cluster smaller than 5% of the
\* batch has a finding; no member of a cluster of 5% or more has a
\* small-cluster finding.
C7_SmallClusterRule ==
  Detected =>
    \A i \in Rows :
      /\ 20 * ClusterSizeOf(i) < Len(df) => FindingsOf(i) # {}
      /\ 20 * ClusterSizeOf(i) >= Len(df) =>
           \A j \in FindingsOf(i) : Found[j].reason # "Small cluster"

\* A batch of 21 with a cluster of one, flagged by the small-cluster rule.
C7_Witness ==
  /\ Detected /\ Len(df) = 21
  /\ \E i \in Rows : /\ ClusterSizeOf(i) = 1
                     /\ \E j \in FindingsOf(i) : Found[j].reason = "Small cluster"

\* ------------------------ SpecReuse: one analyzer object, clustering again
\* A fresh analyzer may first cluster another batch; then it clusters df, and
\* clusters df once more.
MaxReuseN == 2
ReuseBatches == UNION {[1..n -> FeatureRows] : n \in 1..MaxReuseN}
OtherBatch == <<<<1, 1>>, <<0, 1>>, <<0, 0>>>>

\* The clustering call of the analyzer v on the batch X.
RunClustering(v, obj, X) ==
  IF v = "minimal" THEN PerformClustering(obj, X) ELSE PerformAnalysis(obj, X)

\* What a clustering call produced: the exception, and after a success the
\* assignments, the centroids and the scores.
Outcome(r) ==
  IF r.exc # "none" THEN [exc |-> r.exc]
  ELSE [exc |-> "none", labels |-> Get(r.self.labels),
        centers |-> Get(Get(r.self.kmeans).cluster_centers_),
        scores |-> Get(r.self.anomaly_scores)]

InitReuse ==
  /\ variant \in Variants
  /\ args \in [clusters : 1..MaxReuseN, threshold : {DefaultThresholdPercentile}]
  /\ df \in ReuseBatches
  /\ self = NewAnalyzer(args.clusters)
  /\ last = NoCall
  /\ pc = "new"
  /\ outfile = None
  /\ first = None
  /\ km = NoRestart

\* The object clusters another batch before df.
RunOther ==
  /\ pc = "new"
  /\ \E r \in {RunClustering(variant, self, OtherBatch)} :
       /\ self' = r.self
       /\ last' = CallOf("other", r)
  /\ pc' = "used"
  /\ UNCHANGED <<variant, args, df, outfile, first, km>>

\* The object clusters df.
RunAgain ==
  /\ pc \in {"new", "used", "once"}
  /\ \E r \in {RunClustering(variant, self, df)} :
       /\ self' = r.self
       /\ last' = CallOf("clustering", r)
       /\ first' = IF first = None THEN Some(Outcome(r)) ELSE first
  /\ pc' = IF pc = "once" THEN "twice" ELSE "once"
  /\ UNCHANGED <<variant, args, df, outfile, km>>

NextReuse == RunOther \/ RunAgain

SpecReuse == InitReuse /\ [][NextReuse]_vars

\* The outcome of the call that has just clustered df.
ThisOutcome == Outcome([self |-> self, exc |-> last.exc])
\* The outcome of clustering df with a fresh analyzer.
FreshOutcome ==
  Only({Outcome(r) : r \in {RunClustering(variant, NewAnalyzer(args.clusters), df)}})

\* C8.  Determinism: every clustering of the same records with the same K and
\* seed gives the assignments, centroids and scores that the first clustering
\* on this object gave and that a fresh analyzer gives, whatever the object
\* clustered before.
C8_Deterministic ==
  last.call = "clustering" =>
    /\ ThisOutcome = Get(first)
    /\ ThisOutcome = FreshOutcome

\* A second successful clustering of df on the same object, in two clusters.
C8_Witness ==
  /\ pc = "twice" /\ last.exc = "none"
  /\ NUnique(Get(self.labels)) = 2

\* C28.  Report consistency: in a report of generate_results a packet_results
\* entry has is_anomaly true exactly when the anomalies list holds a finding
\* for that record, and num_anomalies is the length of the anomalies list and
\* the number of packet_results entries with is_anomaly true.
C28_ReportConsistent ==
  Reported =>
    LET report == Get(last.ret)
        flagged == {i \in Rows : report.packet_results[i].is_anomaly}
    IN /\ \A i \in Rows :
            report.packet_results[i].is_anomaly <=>
              \E j \in 1..Len(report.anomalies) :
                 report.anomalies[j].packet_number = PacketNumber(i)
       /\ report.analysis_info.num_anomalies = Len(report.anomalies)
       /\ report.analysis_info.num_anomalies = Cardinality(flagged)

\* A report with a record that both exceeds the threshold and sits in a small
\* cluster, and with a record that is no anomaly.
C28_Witness ==
  /\ Reported
  /\ \E i \in Rows :
       /\ ClusterSizeOf(i) * 100 < Len(df) * SmallClusterPercent
       /\ ScoreExceeds(Get(self.anomaly_scores), i,
                       Percentile(Get(self.anomaly_scores), DefaultThresholdPercentile))
       /\ Get(last.ret).packet_results[i].is_anomaly
  /\ \E i \in Rows : ~Get(last.ret).packet_results[i].is_anomaly
  /\ Get(last.ret).analysis_info.num_anomalies >= 2

\* C30.  Single-batch consistency: after any sequence of clustering calls on
\* one object, failing calls among them, the stored scaler statistics, k-means
\* model, labels and scores are those of the analysis of one batch, and there
\* are as many labels as scores.
C30_SingleBatch ==
  self.labels # None =>
    /\ Len(Get(self.labels)) = Len(Get(self.anomaly_scores).q)
    /\ \E X \in {OtherBatch, df} :
         \E fresh \in {RunClustering(variant, NewAnalyzer(args.clusters), X)} :
           /\ fresh.exc = "none"
           /\ self.scaler = fresh.self.scaler
           /\ self.kmeans = fresh.self.kmeans
           /\ self.labels = fresh.self.labels
           /\ self.anomaly_scores = fresh.self.anomaly_scores

\* --------------------------- SpecKM: one K-means restart, step by step
\* fit_predict at work on the scaled batch: one restart from any initial
\* centroids k-means++ can choose, one assignment or update step at a time.
\* km.before and km.after are the inertia, under the assignments of the last
\* update step, of the centroids before and after it; km.reseeded tells that
\* the step reseeded an empty cluster.

\* A seeding that may choose a row again.
KppPossibleAgain(Z, idx, k) == 1..NRows(Z)

\* The rows k-means++ can choose next: KppNext over all generator values.
KppPossible(Z, idx, k) ==
  LET far == {i \in 1..NRows(Z) : NearestChosen(Z, idx, k, i) > 0}
  IN IF far # {} THEN far ELSE (1..NRows(Z)) \ {idx[j] : j \in 1..k}

RECURSIVE KppChoices(_, _, _)
\* Every extension of idx to K rows that k-means++ can choose.
KppChoices(Z, K, idx) ==
  IF Len(idx) = K THEN {idx}
  ELSE IF Len(idx) = 0
    THEN UNION {KppChoices(Z, K, <<i>>) : i \in 1..NRows(Z)}
    ELSE UNION {KppChoices(Z, K, Append(idx, i)) : i \in KppPossible(Z, idx, Len(idx))}

\* Batches of rows that are not evenly spread, so that rows change cluster
\* after the first update.
SpreadRows == {<<0, 0>>, <<3, 0>>, <<4, 0>>, <<0, 1>>}
SpreadBatches == UNION {[1..n -> SpreadRows] : n \in 1..MaxN}

InitKM ==
  /\ variant = "minimal"
  /\ df \in SpreadBatches
  /\ args \in [clusters : 1..Len(df), threshold : {DefaultThresholdPercentile}]
  /\ self = [NewAnalyzer(args.clusters) EXCEPT
               !.scaler = Some(ScalerFit(df)),
               !.kmeans = Some(NewKMeans(NewAnalyzer(args.clusters)))]
  /\ last = NoCall
  /\ pc = "fitting"
  /\ outfile = None
  /\ first = None
  /\ \E Z \in {ScalerFitTransform(df)} :
       \E idx \in KppChoices(Z, args.clusters, <<>>) :
         km = [phase |-> "assign", Z |-> Z,
               C |-> CentroidsAt(Z, args.clusters, idx),
               lab |-> NoLabels, iter |-> 0,
               before |-> 0, after |-> 0, reseeded |-> FALSE]

\* Assignment step of an iteration in which some row changes its cluster.
KMAssign ==
  /\ km.phase = "assign" /\ ~CapReached(km.iter)
  /\ \E new \in {AssignStep(km.Z, km.C)} :
       /\ ~Converged(new, km.lab)
       /\ km' = [km EXCEPT !.lab = new, !.phase = "update"]
  /\ UNCHANGED <<variant, args, df, self, last, pc, outfile, first>>

\* The restart stops: the cap is reached or no row changes its cluster.
KMStop ==
  /\ km.phase = "assign"
  /\ CapReached(km.iter) \/ Converged(AssignStep(km.Z, km.C), km.lab)
  /\ km' = [km EXCEPT !.phase = "done"]
  /\ UNCHANGED <<variant, args, df, self, last, pc, outfile, first>>

\* Update step.
KMUpdate ==
  /\ km.phase = "update"
  /\ \E new \in {UpdateStep(km.Z, km.C, km.lab)} :
       km' = [km EXCEPT !.C = new, !.iter = km.iter + 1, !.phase = "assign",
                        !.before = Inertia(km.Z, km.C, km.lab),
                        !.after = Inertia(km.Z, new, km.lab),
                        !.reseeded = \E k \in DOMAIN km.C : Members(km.lab, k) = {}]
  /\ UNCHANGED <<variant, args, df, self, last, pc, outfile, first>>

NextKM == KMAssign \/ KMStop \/ KMUpdate

SpecKM == InitKM /\ [][NextKM]_vars /\ WF_vars(NextKM)

\* C9.  Inertia monotonicity: the inertia after an update step is at most the
\* inertia before it, also when the step reseeds an empty cluster.
C9_InertiaNonIncreasing == km.after <= km.before

\* An update step that reseeded an empty cluster.
C9_Witness == km.iter >= 1 /\ km.reseeded

FitRows == {<<0, 0>>, <<3, 0>>, <<5, 0>>, <<0, 1>>}
FitBatches == UNION {[1..n -> FitRows] : n \in 1..MaxN}

InitFit ==
  /\ variant = "minimal"
  /\ df \in FitBatches
  /\ args \in [clusters : 1..Len(df), threshold : {DefaultThresholdPercentile}]
  /\ self = [NewAnalyzer(args.clusters) EXCEPT
               !.scaler = Some(ScalerFit(df)),
               !.kmeans = Some(NewKMeans(NewAnalyzer(args.clusters)))]
  /\ last = NoCall
  /\ pc = "fitting"
  /\ outfile = None
  /\ first = None
  /\ \E Z \in {ScalerFitTransform(df)} :
       km = [phase |-> "restarts", Z |-> Z, r |-> 1, runs |-> <<>>,
             best |-> None]

\* Restart km.r runs and the selection keeps the better of it and km.best.
FitRestart ==
  /\ km.phase = "restarts" /\ km.r <= NInit
  /\ \E this \in {Restart(km.Z, args.clusters, RandomState, km.r)} :
       km' = [km EXCEPT !.r = km.r + 1,
                        !.runs = Append(km.runs, this),
                        !.best = IF km.best = None THEN Some(this)
                                 ELSE Some(Better(this, Get(km.best)))]
  /\ UNCHANGED <<variant, args, df, self, last, pc, outfile, first>>

\* All restarts have run: fit returns what the selection kept.
FitReturn ==
  /\ km.phase = "restarts" /\ km.r > NInit
  /\ km' = [km EXCEPT !.phase = "returned"]
  /\ UNCHANGED <<variant, args, df, self, last, pc, outfile, first>>

NextFit == FitRestart \/ FitReturn

SpecFit == InitFit /\ [][NextFit]_vars

\* C20.  Best-of-restarts selection: when fit returns, exactly 10 restarts
\* have run, and the centroids and assignments returned are those of a restart
\* whose final inertia is at most the final inertia of every other restart.
C20_BestOfRestarts ==
  km.phase = "returned" =>
    /\ Len(km.runs) = 10
    /\ KMeansFit(km.Z, args.clusters, RandomState) = Get(km.best)
    /\ \E r \in 1..Len(km.runs) :
         /\ km.runs[r].centers = Get(km.best).centers
         /\ km.runs[r].labels = Get(km.best).labels
         /\ \A q \in 1..Len(km.runs) : km.runs[r].inertia <= km.runs[q].inertia

\* A fit whose restarts ended with different inertia, the last of them not
\* with the least.
C20_Witness ==
  /\ km.phase = "returned"
  /\ \E q \in 1..Len(km.runs) : km.runs[q].inertia < km.runs[Len(km.runs)].inertia

\* ------------- SpecPar: the restarts of KMeans.fit running concurrently
\* Every restart has its own centroids and its own random stream and reads
\* the scaled batch only; the restarts finish in any order.  km.runs[r] is
\* the result of restart r once it has finished, km.arrived the result a
\* writer that compares the restarts as they finish would hold.  When all
\* have finished, one writer selects over the results by restart index.
MaxParN == 2
ParRows == {<<0, 0>>, <<3, 0>>}
ParBatches == UNION {[1..n -> ParRows] : n \in 1..MaxParN}

RECURSIVE SelectFrom(_, _, _)
\* The best of runs[r..NInit] and best, by restart index.
SelectFrom(runs, r, best) ==
  IF r > NInit THEN best
  ELSE SelectFrom(runs, r + 1, Better(Get(runs[r]), best))

\* A selection that keeps what the restarts left as they finished.
SelectedByArrival(k) == Get(k.arrived)

\* The final selection over the finished restarts.
Selected(k) == SelectFrom(k.runs, 2, Get(k.runs[1]))

InitPar ==
  /\ variant = "minimal"
  /\ df \in ParBatches
  /\ args \in [clusters : 1..Len(df), threshold : {DefaultThresholdPercentile}]
  /\ self = [NewAnalyzer(args.clusters) EXCEPT
               !.scaler = Some(ScalerFit(df)),
               !.kmeans = Some(NewKMeans(NewAnalyzer(args.clusters)))]
  /\ last = NoCall
  /\ pc = "fitting"
  /\ outfile = None
  /\ first = None
  /\ \E Z \in {ScalerFitTransform(df)} :
       km = [phase |-> "restarts", Z |-> Z, runs |-> [r \in 1..NInit |-> None],
             arrived |-> None, best |-> None]

\* Restart r finishes.
ParFinish ==
  /\ km.phase = "restarts"
  /\ \E r \in 1..NInit :
       /\ km.runs[r] = None
       /\ \E this \in {Restart(km.Z, args.clusters, RandomState, r)} :
            km' = [km EXCEPT !.runs[r] = Some(this),
                             !.arrived = IF km.arrived = None THEN Some(this)
                                         ELSE Some(Better(this, Get(km.arrived)))]
  /\ UNCHANGED <<variant, args, df, self, last, pc, outfile, first>>

\* All restarts have finished: the selection.
ParSelect ==
  /\ km.phase = "restarts"
  /\ \A r \in 1..NInit : km.runs[r] # None
  /\ km' = [km EXCEPT !.phase = "returned", !.best = Some(Selected(km))]
  /\ UNCHANGED <<variant, args, df, self, last, pc, outfile, first>>

NextPar == ParFinish \/ ParSelect

SpecPar == InitPar /\ [][NextPar]_vars

DistinctRows == {df[i] : i \in Rows}
AllVectorsIdentical == Cardinality(DistinctRows) = 1
LabelsOf(k) == Members(Get(self.labels), k)

\* C11.  Numeric degeneracy is not fatal: when all vectors of the batch are
\* identical and 1 <= K <= N, the run does not fail, one cluster holds every
\* record and every anomaly score is 0.
C11_DegenerateNotFatal ==
  (AllVectorsIdentical /\ ~InvalidClusterCount /\ pc # "ready") =>
    /\ pc # "exit1"
    /\ Clustered
    /\ \E k \in 0..(args.clusters - 1) : LabelsOf(k) = Rows
    /\ \A i \in Rows : ScoreIsZero(Get(self.anomaly_scores), i)

\* Three identical records clustered with K = 3: two centroids have no rows.
C11_Witness ==
  /\ AllVectorsIdentical /\ Len(df) = 3 /\ args.clusters = 3
  /\ Clustered /\ pc = "exit0"

\* C12.  When K exceeds the number of distinct vectors of the batch (K <= N),
\* the run fails before any computation: nothing is fitted, no result exists.
C12_TooFewDistinctFails ==
  (~InvalidClusterCount /\ args.clusters > Cardinality(DistinctRows)
     /\ pc # "ready") =>
    /\ pc = "exit1"
    /\ self.scaler = None /\ self.kmeans = None /\ self.labels = None

\* C13.  Cluster report: one summary for each cluster id that has records,
\* none for an id without records; a summary's size is the number of records
\* with that id and its percentage is size / N * 100; the sizes add up to N.
C13_ClusterReport ==
  /\ Reported =>
       /\ \A k \in 0..(args.clusters - 1) :
            Cardinality({j \in 1..Len(ReportedClusters) : ReportedClusters[j].id = k})
              = IF LabelsOf(k) = {} THEN 0 ELSE 1
       /\ \A j \in 1..Len(ReportedClusters) :
            /\ ReportedClusters[j].id \in 0..(args.clusters - 1)
            /\ ReportedClusters[j].size = Cardinality(LabelsOf(ReportedClusters[j].id))
            /\ ReportedClusters[j].percentage.num * Len(df)
                 = ReportedClusters[j].size * 100 * ReportedClusters[j].percentage.den
       /\ SumTo([j \in 1..Len(ReportedClusters) |-> ReportedClusters[j].size],
                Len(ReportedClusters)) = Len(df)
  /\ (last.call = "get_cluster_summary" /\ last.ret # None) =>
       /\ DOMAIN Get(last.ret).cluster_sizes
            = {k \in 0..(args.clusters - 1) : LabelsOf(k) # {}}
       /\ \A k \in DOMAIN Get(last.ret).cluster_sizes :
            Get(last.ret).cluster_sizes[k] = Cardinality(LabelsOf(k))

\* A report of fewer clusters than K: some cluster id has no records.
C13_Witness ==
  /\ Reported /\ Len(ReportedClusters) = 2 /\ args.clusters = 3

\* ------------------------------------------------ the output file (Spec)
\* C15.  Output format selector: with csv selected the run writes a file
\* that holds the packet_results rows only; with json selected it writes the
\* full report.
C15_OutputFormat ==
  /\ last.call = "write_results" =>
       /\ outfile # None
       /\ last.format = "csv" =>
            /\ Get(outfile).format = "csv"
            /\ Get(outfile).content = Get(last.ret).packet_results
       /\ last.format = "json" =>
            /\ Get(outfile).format = "json"
            /\ Get(outfile).content = Get(last.ret)
  /\ last.call = "export_results" =>
       /\ outfile # None
       /\ last.format = "csv" =>
            /\ Get(outfile).format = "csv"
            /\ Get(outfile).content = Get(last.ret).packet_results
       /\ last.format = "json" =>
            /\ Get(outfile).format = "json"
            /\ Get(outfile).content = Get(last.ret)

\* --------------------------- SpecMain: the command line entry points
\* main() of the minimal analyzer, of the enhanced analyzer and of the
\* functional script wiresharkanalyzer.py, from the parsed arguments on.
\* args.csv_file stands for the file the path names: it does not exist, it
\* cannot be read, it has no bytes, it is a CSV without any of the Wireshark
\* columns, or it is a Wireshark export with the given rows.
MaxMainN == 2
EntryPoints == Variants \cup {"functional"}
MainBatches == UNION {[1..n -> FeatureRows] : n \in 1..MaxMainN}
BadFiles == {"missing", "unreadable", "empty", "no_columns"}
InputFiles ==
  {[kind |-> k, rows |-> <<>>] : k \in BadFiles}
    \cup {[kind |-> "ok", rows |-> X] : X \in MainBatches}

\* How each entry point leaves when the file cannot be loaded: the minimal
\* main calls sys.exit(1), the enhanced main returns 1 to sys.exit, the
\* functional main returns and the script ends.
LoadFailureExit(v) == IF v = "functional" THEN "exit0" ELSE "exit1"

\* The functional script from the loaded batch on: KMeans raises for an
\* invalid cluster count, PCA(n_components=2) raises for a single record, and
\* nothing catches the exception.
FunctionalRaises(K, X) == KMeansRejects(K, Len(X)) \/ Len(X) < 2

InitMain ==
  /\ variant \in EntryPoints
  /\ args \in [clusters : 0..(MaxMainN + 1), threshold : {DefaultThresholdPercentile},
               csv_file : InputFiles]
  /\ df = <<>>
  /\ self = NewAnalyzer(args.clusters)
  /\ last = NoCall
  /\ pc = "start"
  /\ outfile = None
  /\ first = None
  /\ km = NoRestart

\* The loader returns None (or, in the enhanced main, an empty frame, or a
\* frame whose missing column makes extract_features raise).
MainLoadFails ==
  /\ pc = "start" /\ args.csv_file.kind # "ok"
  /\ pc' = LoadFailureExit(variant)
  /\ UNCHANGED <<variant, args, df, self, last, outfile, first, km>>

\* The loader returns the records and the features are extracted.
MainLoad ==
  /\ pc = "start" /\ args.csv_file.kind = "ok"
  /\ df' = args.csv_file.rows
  /\ pc' = "ready"
  /\ UNCHANGED <<variant, args, self, last, outfile, first, km>>

\* wiresharkanalyzer.py main from perform_clustering on.
FunctionalMain ==
  /\ variant = "functional" /\ pc = "ready"
  /\ last' = [call |-> "main",
              exc |-> IF FunctionalRaises(args.clusters, df)
                      THEN "ValueError" ELSE "none",
              ret |-> None]
  /\ pc' = IF FunctionalRaises(args.clusters, df) THEN "exit1" ELSE "exit0"
  /\ UNCHANGED <<variant, args, df, self, outfile, first, km>>

NextMain == MainLoadFails \/ MainLoad \/ FunctionalMain \/ Next

SpecMain == InitMain /\ [][NextMain]_vars

Exited == pc \in {"exit0", "exit1"}

\* C14.  Exit status: an entry point exits with 0 when the analysis succeeds
\* and with a non-zero status when the input file is missing, unreadable,
\* empty or lacks the required columns, or when the cluster count is invalid.
C14_ExitStatus ==
  Exited =>
    /\ (args.csv_file.kind # "ok" \/ InvalidClusterCount) => pc = "exit1"
    /\ (args.csv_file.kind = "ok" /\ ~InvalidClusterCount /\ last.exc = "none")
         => pc = "exit0"

\* ------------------------- the standardized batch (Spec)
\* The batch as the fitted scaler of the object transforms it: row i has the
\* value Scaled.a[i][d] / sqrt(Scaled.w[d]) in dimension d.
Scaled == ScalerTransform(Get(self.scaler), df)
ConstantDim(d) == \A i, j \in Rows : df[i][d] = df[j][d]
SumOverRows(f) == SumTo([i \in Rows |-> f[i]], Len(df))

\* C26.  Zero-variance dimension: for a dimension with the same value in
\* every vector the deviation is taken as 1 (w = n^2 in the units of the
\* model, not 0), and the dimension is 0 in every standardized vector; every
\* other dimension is standardized as ever: mean 0 and variance 1.
C26_ZeroVariance ==
  self.scaler # None =>
    \A d \in 1..Dim :
      /\ Scaled.w[d] > 0
      /\ ConstantDim(d) =>
           /\ Scaled.w[d] = Sq(Len(df))
           /\ \A i \in Rows : Scaled.a[i][d] = 0
      /\ ~ConstantDim(d) =>
           /\ SumOverRows([i \in Rows |-> Scaled.a[i][d]]) = 0
           /\ SumOverRows([i \in Rows |-> Sq(Scaled.a[i][d])])
                = Len(df) * Scaled.w[d]

\* A clustered batch of three vectors with one constant dimension.
C26_Witness ==
  /\ Clustered /\ Len(df) = 3
  /\ ConstantDim(1) /\ ~ConstantDim(2)

Num(v) == [t |-> "num", v |-> v]
NaN == [t |-> "nan", v |-> 0]
Text == [t |-> "text", v |-> 0]
Addr(o) == [t |-> "addr", v |-> o]
NoAddr == [t |-> "nan", v |-> <<>>]
Str(marks) == [t |-> "str", v |-> marks]
NoStr == [t |-> "nan", v |-> {}]

MaxExtractN == 2
NumberCells == {Num(60), NaN, Text}
TimeCells == {Num(0), NaN, Text}
AddrCells == {Addr(<<10, 0, 0, 1>>), NoAddr}
ProtocolCells == {Str({"TCP"})}
InfoCells == {Str({"[SYN]", "error"}), NoStr}
RecordRows ==
  [Length : NumberCells, Time : TimeCells, Source : AddrCells,
   Destination : AddrCells, Protocol : ProtocolCells, Info : InfoCells]
RecordBatches == UNION {[1..n -> RecordRows] : n \in 1..MaxExtractN}

\* pd.notna(cell)
NotNa(c) == c.t # "nan"
\* float(cell) raises ValueError for text that is no number.
FloatRaises(c) == c.t = "text"
\* float(cell) if pd.notna(cell) else 0
FloatOrZero(c) == IF c.t = "num" THEN c.v ELSE 0

\* re.match(r'^(10\.|172\.1[6-9]\.|...|192\.168\.)', str(cell)) on an address;
\* a missing address is the empty string.
IsLocalAddr(c) ==
  /\ c.t = "addr"
  /\ \/ c.v[1] = 10
     \/ c.v[1] = 172 /\ c.v[2] \in 16..31
     \/ c.v[1] = 192 /\ c.v[2] = 168

\* re.search(pattern, info) for a pattern looking for one of the marks; the
\* text of a missing Info cell is "nan" and holds no mark.
HasMark(c, marks) == c.v \cap marks # {}

\* str.lower() on a mark of the text.
Lower(m) ==
  CASE m = "ERROR" -> "error"
    [] m = "Reset" -> "reset"
    [] OTHER -> m

\* info.lower()
LowerCell(c) == [c EXCEPT !.v = {Lower(m) : m \in c.v}]

\* The keywords of the has_error pattern of the minimal and the functional
\* analyzer, and of the enhanced analyzer.
ErrorKeywords == {"error", "reset", "refused", "failed", "timeout"}
EnhancedErrorKeywords == {"error", "failed", "timeout", "unreachable"}

\* The row labels pd.read_csv gives: 0, 1, ...
RangeIndex(n) == [p \in 1..n |-> p - 1]

\* protocol_map.get(row['Protocol'], 0)
ProtocolNum(c) == IF "TCP" \in c.v THEN 1 ELSE 0

\* The loop body of minimal extract_features for row i (1, 2, ...): whether
\* it raises, and the feature vector it appends.
ExtractRowRaises(rows, i) ==
  \/ NotNa(rows[i].Length) /\ FloatRaises(rows[i].Length)
  \/ NotNa(rows[i].Time) /\ FloatRaises(rows[i].Time)
  \/ i > 1 /\ NotNa(rows[i - 1].Time) /\ FloatRaises(rows[i - 1].Time)

\* The time_delta of the row at position p (1, 2, ...) whose label is
\* labels[p]: idx > 0 tests the label, df.iloc[idx-1] is the row at position
\* idx (counting from 1).
MinimalTimeDeltaRaises(rows, labels, p) ==
  labels[p] > 0 /\ labels[p] > Len(rows)

MinimalTimeDelta(rows, labels, p) ==
  IF labels[p] > 0
  THEN FloatOrZero(rows[p].Time) - FloatOrZero(rows[labels[p]].Time)
  ELSE 0

ExtractRowAt(rows, labels, i) ==
  [length |-> FloatOrZero(rows[i].Length),
   time |-> FloatOrZero(rows[i].Time),
   protocol_num |-> ProtocolNum(rows[i].Protocol),
   src_local |-> IF IsLocalAddr(rows[i].Source) THEN 1 ELSE 0,
   dst_local |-> IF IsLocalAddr(rows[i].Destination) THEN 1 ELSE 0,
   time_delta |-> MinimalTimeDelta(rows, labels, i),
   has_error |-> IF HasMark(LowerCell(rows[i].Info), ErrorKeywords)
                 THEN 1 ELSE 0,
   is_syn |-> IF HasMark(rows[i].Info, {"[SYN]"}) THEN 1 ELSE 0,
   is_fin |-> IF HasMark(rows[i].Info, {"[FIN"}) THEN 1 ELSE 0,
   is_dns |-> IF HasMark(rows[i].Info, {"Standard query", "response"})
              THEN 1 ELSE 0]

\* The feature vector of row i of a frame as load_data returns it.
ExtractRow(rows, i) == ExtractRowAt(rows, RangeIndex(Len(rows)), i)

\* minimal extract_features(df)
ExtractFeatures(obj, rows) ==
  IF \E i \in 1..Len(rows) : ExtractRowRaises(rows, i)
  THEN Raised(obj, "ValueError")
  ELSE Returned(obj, [i \in 1..Len(rows) |-> ExtractRow(rows, i)])

\* int(row['Length']) in a finding of detect_anomalies: raises ValueError for
\* NaN.
FindingRaises(rows, i) == rows[i].Length.t # "num"

InitExtract ==
  /\ variant = "minimal"
  /\ args \in [clusters : {1}, threshold : {DefaultThresholdPercentile}]
  /\ df \in RecordBatches
  /\ self = NewAnalyzer(args.clusters)
  /\ last = NoCall
  /\ pc = "loaded"
  /\ outfile = None
  /\ first = None
  /\ km = NoRestart

\* features_df = analyzer.extract_features(df)
CallExtractFeatures ==
  /\ pc = "loaded"
  /\ \E r \in {ExtractFeatures(self, df)} :
       /\ last' = CallOf("extract_features", r)
       /\ pc' = IF r.exc = "none" THEN "extracted" ELSE "exit1"
  /\ UNCHANGED <<variant, args, df, self, outfile, first, km>>

\* detect_anomalies builds the finding of a flagged record.  Which records
\* the clustering of the capture flags is not decided here: any record can
\* be the flagged one.
BuildFinding ==
  /\ pc = "extracted"
  /\ \E i \in 1..Len(df) :
       /\ last' = [call |-> "detect_anomalies",
                   exc |-> IF FindingRaises(df, i) THEN "ValueError" ELSE "none",
                   ret |-> Some(i)]
       /\ pc' = IF FindingRaises(df, i) THEN "exit1" ELSE "reported"
  /\ UNCHANGED <<variant, args, df, self, outfile, first, km>>

NextExtract == CallExtractFeatures \/ BuildFinding

SpecExtract == InitExtract /\ [][NextExtract]_vars

\* C16.  Feature extraction is total: for every batch, with missing or
\* unparseable fields too, extraction returns one feature vector per record
\* in input order, a bad length or time contributing 0 and a bad address or
\* info contributing false; the report stage does not abort either.
C16_ExtractionTotal ==
  pc # "loaded" =>
    /\ last.exc = "none"
    /\ last.call = "extract_features" =>
         /\ Len(Get(last.ret)) = Len(df)
         /\ \A i \in 1..Len(df) :
              /\ df[i].Length.t # "num" => Get(last.ret)[i].length = 0
              /\ df[i].Time.t # "num" => Get(last.ret)[i].time = 0
              /\ df[i].Source.t = "nan" => Get(last.ret)[i].src_local = 0
              /\ df[i].Destination.t = "nan" => Get(last.ret)[i].dst_local = 0
              /\ df[i].Info.t = "nan" => Get(last.ret)[i].has_error = 0

\* ------------------- SpecApi: the enhanced analyzer called in any order
MaxApiN == 2
ApiBatches == UNION {[1..n -> FeatureRows] : n \in 1..MaxApiN}

\* A new enhanced analyzer; `first` records whether a perform_analysis has
\* returned and whether one has raised, and the object as the last successful
\* analysis left it.
InitApi ==
  /\ variant = "enhanced"
  /\ args \in [clusters : 0..MaxApiN, threshold : {DefaultThresholdPercentile}]
  /\ df \in ApiBatches
  /\ self = NewAnalyzer(args.clusters)
  /\ last = NoCall
  /\ pc = "api"
  /\ outfile = None
  /\ first = Some([succeeded |-> FALSE, failed |-> FALSE, analysed |-> None])
  /\ km = NoRestart

\* analyzer.perform_analysis(features) on the features of the capture or of
\* its first packet alone
ApiPerformAnalysis ==
  /\ pc = "api"
  /\ \E X \in {df, SubSeq(df, 1, 1)} :
       \E r \in {PerformAnalysis(self, X)} :
         /\ self' = r.self
         /\ last' = [call |-> "perform_analysis", exc |-> r.exc,
                     ret |-> r.ret, n |-> Len(X)]
         /\ first' = Some([succeeded |-> Get(first).succeeded \/ r.exc = "none",
                           failed |-> Get(first).failed \/ r.exc # "none",
                           analysed |-> IF r.exc = "none" THEN Some(r.self)
                                        ELSE Get(first).analysed])
  /\ UNCHANGED <<variant, args, df, pc, outfile, km>>

\* analyzer.get_cluster_summary()
ApiGetClusterSummary ==
  /\ pc = "api"
  /\ last' = [call |-> "get_cluster_summary", exc |-> "none",
              ret |-> GetClusterSummary(self)]
  /\ UNCHANGED <<variant, args, df, self, pc, outfile, first, km>>

\* analyzer.export_results(output_file, format); a file written stays.
ApiExportResults ==
  /\ pc = "api"
  /\ \E format \in Formats :
       \E r \in {ExportResults(self, format)} :
         /\ last' = [call |-> "export_results", exc |-> r.call.exc,
                     ret |-> r.call.ret, msg |-> r.msg]
         /\ outfile' = IF r.file = None THEN outfile ELSE r.file
  /\ UNCHANGED <<variant, args, df, self, pc, first, km>>

NextApi == ApiPerformAnalysis \/ ApiGetClusterSummary \/ ApiExportResults

SpecApi == InitApi /\ [][NextApi]_vars

\* C18.  While no perform_analysis has succeeded on an enhanced analyzer,
\* whatever was called before, get_cluster_summary returns None and
\* export_results raises 'No analysis results to export' and no output file
\* exists; once a perform_analysis has succeeded both return results.
C18_NoResultsYet ==
  /\ ~Get(first).succeeded =>
       /\ last.call = "get_cluster_summary" => last.ret = None
       /\ last.call = "export_results" =>
            /\ last.exc = "ValueError" /\ last.msg = NoResultsMessage
            /\ last.ret = None
       /\ outfile = None
  /\ Get(first).succeeded =>
       /\ last.call = "get_cluster_summary" => last.ret # None
       /\ last.call = "export_results" =>
            /\ last.exc = "none" /\ last.ret # None
            /\ outfile # None

\* An export refused after a perform_analysis that raised.
C18_Witness ==
  /\ ~Get(first).succeeded /\ Get(first).failed
  /\ last.call = "export_results" /\ last.exc = "ValueError"

\* C29.  State unchanged on rejection: a perform_analysis that rejects a
\* batch with fewer data points than clusters leaves the scaler statistics,
\* the k-means model, the labels, the scores and the features of the object as
\* they were; a later get_cluster_summary or export_results reports the last
\* successful analysis.
C29_RejectionKeepsState ==
  /\ [][(last'.call = "perform_analysis" /\ last'.n < args.clusters) =>
          (last'.exc = "ValueError" /\ self' = self)]_vars
  /\ [](Get(first).succeeded =>
          /\ last.call = "get_cluster_summary" =>
               last.ret = GetClusterSummary(Get(Get(first).analysed))
          /\ last.call = "export_results" =>
               last.ret = ExportResults(Get(Get(first).analysed), "json").call.ret)

\* A batch rejected for its size on an object that holds an analysis.
C29_Witness ==
  /\ last.call = "perform_analysis" /\ last.exc = "ValueError"
  /\ last.n < args.clusters
  /\ Get(first).succeeded /\ self.labels # None

\* ------------- SpecFeatures: feature extraction of the three analyzers
\* Timestamps are multiples of 1/TimeUnit second: Num(v) in a Time cell is
\* v / TimeUnit seconds, and so is a time_delta d.
MaxFeatN == 2
TimeUnit == 2

BaseRecord ==
  [Length |-> Num(60), Time |-> Num(0), Source |-> Addr(<<8, 8, 8, 8>>),
   Destination |-> Addr(<<8, 8, 8, 8>>), Protocol |-> Str({"TCP"}),
   Info |-> Str({})]

FeatureTimeCells == {Num(1), Num(3), NaN}
FeatureAddrCells ==
  {Addr(<<10, 0, 0, 1>>), Addr(<<172, 16, 0, 1>>), Addr(<<172, 20, 0, 1>>),
   Addr(<<172, 32, 0, 1>>), Addr(<<192, 168, 0, 1>>), NoAddr}
FeatureInfoCells ==
  {Str({"error"}), Str({"ERROR"}), Str({"Reset"}), Str({"refused"}),
   Str({"failed"}), Str({"timeout"}), Str({"unreachable"}), NoStr}

\* The records of a capture: the base record with one cell replaced, and one
\* with a local source and a local destination.
FeatureRecords ==
  {BaseRecord}
    \cup {[BaseRecord EXCEPT !.Time = c] : c \in FeatureTimeCells}
    \cup {[BaseRecord EXCEPT !.Source = c] : c \in FeatureAddrCells}
    \cup {[BaseRecord EXCEPT !.Destination = c] : c \in FeatureAddrCells}
    \cup {[BaseRecord EXCEPT !.Source = Addr(<<10, 0, 0, 1>>),
                             !.Destination = Addr(<<192, 168, 0, 1>>)]}
    \cup {[BaseRecord EXCEPT !.Info = c] : c \in FeatureInfoCells}
FeatureBatches == UNION {[1..n -> FeatureRecords] : n \in 1..MaxFeatN}

\* Row labels of a frame of n rows: those of read_csv, those of a frame whose
\* first row was dropped, and those of a frame in reverse order.
IndexLabels(n) ==
  {RangeIndex(n), [p \in 1..n |-> p], [p \in 1..n |-> n - p]}

\* pd.to_numeric(column, errors='coerce'): NaN for what is no number.
Coerce(c) == IF c.t = "num" THEN c ELSE NaN

\* Series.diff().fillna(0) at position p: the difference to the row before
\* in position, 0 for the first row and where either value is NaN.
DiffFillZero(col, p) ==
  IF p = 1 \/ col[p].t # "num" \/ col[p - 1].t # "num" THEN 0
  ELSE col[p].v - col[p - 1].v

\* enhanced: time_vals = pd.to_numeric(df['timestamp'], errors='coerce').fillna(0)
TimeVals(rows) == [p \in 1..Len(rows) |-> Num(FloatOrZero(rows[p].Time))]

\* A normalisation that divides by the range itself.
TimeNormalizedByRange(rows, p) ==
  LET vals == {TimeVals(rows)[q].v : q \in 1..Len(rows)}
  IN [num |-> TimeVals(rows)[p].v - MinOf(vals),
      den |-> MaxOf(vals) - MinOf(vals)]

\* enhanced: (time_vals - time_vals.min()) / max(time_vals.max() - time_vals.min(), 1)
\* as the fraction num / den.
TimeNormalized(rows, p) ==
  LET vals == {TimeVals(rows)[q].v : q \in 1..Len(rows)}
      range == MaxOf(vals) - MinOf(vals)
  IN [num |-> TimeVals(rows)[p].v - MinOf(vals),
      den |-> IF range > TimeUnit THEN range ELSE TimeUnit]

\* enhanced extract_features, row p.  Every record of these captures has the
\* same protocol, which value_counts ranks 0.
EnhancedExtractRow(rows, p) ==
  [length |-> FloatOrZero(rows[p].Length),
   protocol_encoded |-> 0,
   time_normalized |-> TimeNormalized(rows, p),
   time_delta |-> DiffFillZero(TimeVals(rows), p),
   src_local |-> IF IsLocalAddr(rows[p].Source) THEN 1 ELSE 0,
   dst_local |-> IF IsLocalAddr(rows[p].Destination) THEN 1 ELSE 0,
   has_port_info |-> IF HasMark(rows[p].Info, {"443 ->"}) THEN 1 ELSE 0,
   has_error |-> IF HasMark(LowerCell(rows[p].Info), EnhancedErrorKeywords)
                 THEN 1 ELSE 0,
   is_tcp |-> IF "TCP" \in rows[p].Protocol.v THEN 1 ELSE 0,
   size_small |-> IF FloatOrZero(rows[p].Length) < 100 THEN 1 ELSE 0]

\* wiresharkanalyzer.py extract_ip_features: re.match(r'^(10\.|172\.16\.|192\.168\.)', str(x))
IsLocalAddrFunctional(c) ==
  /\ c.t = "addr"
  /\ \/ c.v[1] = 10
     \/ c.v[1] = 172 /\ c.v[2] = 16
     \/ c.v[1] = 192 /\ c.v[2] = 168

\* wiresharkanalyzer.py prepare_features, row p.
FunctionalExtractRow(rows, p) ==
  [Length |-> FloatOrZero(rows[p].Length),
   time_delta |-> DiffFillZero([q \in 1..Len(rows) |-> Coerce(rows[q].Time)], p),
   src_local |-> IF IsLocalAddrFunctional(rows[p].Source) THEN 1 ELSE 0,
   dst_local |-> IF IsLocalAddrFunctional(rows[p].Destination) THEN 1 ELSE 0,
   protocol_num |-> ProtocolNum(rows[p].Protocol),
   has_error |-> IF HasMark(LowerCell(rows[p].Info), ErrorKeywords)
                 THEN 1 ELSE 0,
   is_syn |-> IF HasMark(rows[p].Info, {"[SYN]"}) THEN 1 ELSE 0,
   is_fin |-> IF HasMark(rows[p].Info, {"[FIN"}) THEN 1 ELSE 0,
   is_dns |-> IF HasMark(rows[p].Info, {"Standard query", "response"})
              THEN 1 ELSE 0]

\* The feature table an analyzer extracts from a frame with the given row
\* labels.
FeaturesOf(v, obj, rows, labels) ==
  IF v = "minimal"
  THEN IF \E p \in 1..Len(rows) :
            ExtractRowRaises(rows, p) \/ MinimalTimeDeltaRaises(rows, labels, p)
       THEN Raised(obj, "IndexError")
       ELSE Returned(obj, [p \in 1..Len(rows) |-> ExtractRowAt(rows, labels, p)])
  ELSE IF v = "enhanced"
  THEN Returned(obj, [p \in 1..Len(rows) |-> EnhancedExtractRow(rows, p)])
  ELSE Returned(obj, [p \in 1..Len(rows) |-> FunctionalExtractRow(rows, p)])

\* args.labels are the row labels of the frame df.
InitFeatures ==
  /\ variant \in EntryPoints
  /\ df \in FeatureBatches
  /\ args \in [clusters : {1}, threshold : {DefaultThresholdPercentile},
               labels : IndexLabels(Len(df))]
  /\ self = NewAnalyzer(args.clusters)
  /\ last = NoCall
  /\ pc = "loaded"
  /\ outfile = None
  /\ first = None
  /\ km = NoRestart

\* extract_features(df) / prepare_features(df)
ExtractAny ==
  /\ pc = "loaded"
  /\ \E r \in {FeaturesOf(variant, self, df, args.labels)} :
       /\ last' = CallOf("extract_features", r)
       /\ pc' = IF r.exc = "none" THEN "extracted" ELSE "exit1"
  /\ UNCHANGED <<variant, args, df, self, outfile, first, km>>

\* The features are handed on to the clustering.
FeaturesUsed ==
  /\ pc = "extracted"
  /\ pc' = "used"
  /\ UNCHANGED <<variant, args, df, self, last, outfile, first, km>>

NextFeatures == ExtractAny \/ FeaturesUsed

SpecFeatures == InitFeatures /\ [][NextFeatures]_vars

Extracted == pc = "extracted"
Feature(p) == Get(last.ret)[p]
TimeOrZero(p) == FloatOrZero(df[p].Time)

\* C22.  Time delta: extraction gives the first record a time delta of 0 and
\* the record at position p > 1 the difference of its timestamp and the
\* timestamp of the record before it in input order, a missing timestamp
\* counting as 0, whatever the row labels are and whether or not the
\* timestamps increase.
C22_TimeDelta ==
  pc # "loaded" =>
    /\ last.exc = "none"
    /\ \A p \in 1..Len(df) :
         Feature(p).time_delta
           = IF p = 1 THEN 0 ELSE TimeOrZero(p) - TimeOrZero(p - 1)

\* The identifier starts with 10., with 192.168., or with 172.N. for an N
\* from 16 to 31.
PrivatePrefix(c) ==
  /\ c.t = "addr"
  /\ \/ c.v[1] = 10
     \/ c.v[1] = 192 /\ c.v[2] = 168
     \/ c.v[1] = 172 /\ \E n \in 16..31 : c.v[2] = n

\* C23.  Locality flags: in every analyzer the source flag of a record is 1
\* exactly when its source starts with a private prefix and the destination
\* flag exactly when its destination does, each whatever the other is.
C23_LocalityFlags ==
  (pc # "loaded" /\ last.exc = "none") =>
    \A p \in 1..Len(df) :
      /\ Feature(p).src_local = (IF PrivatePrefix(df[p].Source) THEN 1 ELSE 0)
      /\ Feature(p).dst_local = (IF PrivatePrefix(df[p].Destination) THEN 1 ELSE 0)

\* C24.  Error indicator: in every analyzer has_error of a record is 1
\* exactly when its info text contains, in any case, one of error, reset,
\* refused, failed, timeout; it is 0 for an empty or a missing info text.
C24_ErrorIndicator ==
  (pc # "loaded" /\ last.exc = "none") =>
    \A p \in 1..Len(df) :
      Feature(p).has_error
        = (IF \E m \in df[p].Info.v :
                Lower(m) \in {"error", "reset", "refused", "failed", "timeout"}
           THEN 1 ELSE 0)

TimesOfBatch == {TimeOrZero(q) : q \in 1..Len(df)}
TimeRange == MaxOf(TimesOfBatch) - MinOf(TimesOfBatch)

\* C25.  Time normalization (enhanced analyzer): the feature is
\* (t - min t) / max(max t - min t, 1): the divisor is at least 1 second,
\* never 0; the value lies in [0, 1]; it is 0 for every record of a batch
\* whose timestamps are all equal.
C25_TimeNormalized ==
  (variant = "enhanced" /\ pc # "loaded") =>
    /\ last.exc = "none"
    /\ \A p \in 1..Len(df) :
         /\ Feature(p).time_normalized.num = TimeOrZero(p) - MinOf(TimesOfBatch)
         /\ Feature(p).time_normalized.den >= TimeUnit
         /\ Feature(p).time_normalized.den >= TimeRange
         /\ Feature(p).time_normalized.den \in {TimeUnit, TimeRange}
         /\ Feature(p).time_normalized.num >= 0
         /\ Feature(p).time_normalized.num <= Feature(p).time_normalized.den
         /\ TimeRange = 0 => Feature(p).time_normalized.num = 0

\* The features of a batch whose timestamps differ by less than a second.
C25_Witness ==
  /\ variant = "enhanced" /\ pc = "extracted"
  /\ TimeRange > 0 /\ TimeRange < TimeUnit
  /\ Feature(2).time_normalized.num > 0

====
